---- MODULE Spec2Model ----
(***************************************************************************)
(* jqawk: an AWK-style pattern/action language over JSON.                  *)
(* The model follows the three components of the repository:               *)
(*   lexer.rs    -> NextToken and its helpers                               *)
(*   compiler.rs -> Expression, Binary, Assign, CompileRule, ...            *)
(*   vm.rs       -> ExecOp (one opcode of Vm::eval), eval_rules, run        *)
(*   main.rs     -> the host: compile, run, report, exit status             *)
(* Source texts are strings; characters are strings of length one.         *)
(***************************************************************************)
EXTENDS Integers, Sequences, FiniteSets, TLC

\* ------------------------------------------------------------------------
\* Characters
\* ------------------------------------------------------------------------

\* Option<char>::None of chars().nth(i)
NoChar == ""

\* src.chars().nth(i), i counted from 0
CharAt(src, i) == IF i >= 0 /\ i < Len(src) THEN SubSeq(src, i + 1, i + 1) ELSE NoChar

\* Printable ASCII in code order, which is the byte order Rust's String
\* comparison uses: codes 32..95 and 97..126 (code 96 is left out).
AsciiLow == " !\"#$%&'()*+,-./0123456789:;<=>?@ABCDEFGHIJKLMNOPQRSTUVWXYZ[\\]^_"

AsciiHigh == "abcdefghijklmnopqrstuvwxyz{|}~"

CharCode(c) ==
  IF \E i \in 1..Len(AsciiLow) : SubSeq(AsciiLow, i, i) = c
  THEN 31 + (CHOOSE i \in 1..Len(AsciiLow) : SubSeq(AsciiLow, i, i) = c)
  ELSE IF \E i \in 1..Len(AsciiHigh) : SubSeq(AsciiHigh, i, i) = c
  THEN 96 + (CHOOSE i \in 1..Len(AsciiHigh) : SubSeq(AsciiHigh, i, i) = c)
  ELSE IF c = "\n" THEN 10 ELSE IF c = "\r" THEN 13 ELSE 0

\* char::is_ascii_alphabetic
AsciiLetters ==
  { "a", "b", "c", "d", "e", "f", "g", "h", "i", "j", "k", "l", "m",
    "n", "o", "p", "q", "r", "s", "t", "u", "v", "w", "x", "y", "z",
    "A", "B", "C", "D", "E", "F", "G", "H", "I", "J", "K", "L", "M",
    "N", "O", "P", "Q", "R", "S", "T", "U", "V", "W", "X", "Y", "Z" }

IsAsciiAlphabetic(c) == c \in AsciiLetters

\* char::is_ascii_digit
AsciiDigits == { "0", "1", "2", "3", "4", "5", "6", "7", "8", "9" }

IsAsciiDigit(c) == c \in AsciiDigits

\* ------------------------------------------------------------------------
\* lexer.rs
\* ------------------------------------------------------------------------

\* Option<String>
None == <<>>
Some(s) == <<s>>
Unwrap(o) == o[1]

\* Token::new / Lexer::simple_token, str_token, err_token
SimpleToken(lx, kind) == [kind |-> kind, str |-> None, line |-> lx.line]
StrToken(lx, kind, s) == [kind |-> kind, str |-> Some(s), line |-> lx.line]
ErrToken(lx, message) == [kind |-> "Error", str |-> Some(message), line |-> lx.line]

\* Lexer::new
NewLexer(src) == [src |-> src, pos |-> 0, token_start |-> 0, line |-> 1]

\* Lexer::advance: the lexer after the call; the character returned is
\* AdvanceChar
LexAdvance(lx) == IF lx.pos <= Len(lx.src) THEN [lx EXCEPT !.pos = lx.pos + 1] ELSE lx
AdvanceChar(lx) == CharAt(lx.src, LexAdvance(lx).pos - 1)

\* Lexer::peek
Peek(lx) == CharAt(lx.src, lx.pos)

\* Lexer::skip_whitespace
RECURSIVE SkipWhitespace(_)
SkipWhitespace(lx) ==
  LET c == Peek(lx) IN
  IF c = " " \/ c = "\r" THEN SkipWhitespace([lx EXCEPT !.pos = lx.pos + 1])
  ELSE IF c = "\n" THEN SkipWhitespace([lx EXCEPT !.pos = lx.pos + 1, !.line = lx.line + 1])
  ELSE lx

\* &self.src[a..b]
Slice(src, a, b) == SubSeq(src, a + 1, b)

\* Lexer::identifier: <<lexer, token>>
RECURSIVE LexIdentifier(_)
LexIdentifier(lx) ==
  IF IsAsciiAlphabetic(Peek(lx)) THEN LexIdentifier(LexAdvance(lx))
  ELSE LET ident == Slice(lx.src, lx.token_start, lx.pos) IN
       << lx, CASE ident = "print" -> SimpleToken(lx, "Print")
                [] ident = "BEGIN" -> SimpleToken(lx, "Begin")
                [] ident = "END"   -> SimpleToken(lx, "End")
                [] OTHER           -> StrToken(lx, "Identifier", ident) >>

\* Lexer::number
RECURSIVE LexNumber(_)
LexNumber(lx) ==
  IF IsAsciiDigit(Peek(lx)) THEN LexNumber(LexAdvance(lx))
  ELSE << lx, StrToken(lx, "Num", Slice(lx.src, lx.token_start, lx.pos)) >>

\* Lexer::string
RECURSIVE LexString(_)
LexString(lx) ==
  LET c == Peek(lx) IN
  IF c = "\"" THEN LET l2 == LexAdvance(lx) IN
                   << l2, StrToken(l2, "Str", Slice(l2.src, l2.token_start + 1, l2.pos - 1)) >>
  ELSE IF c # NoChar THEN LexString(LexAdvance(lx))
  ELSE << lx, ErrToken(lx, "unexpected EOF in string") >>

\* The single-character punctuation of next_token's match
PunctKind(c) ==
  CASE c = "$" -> "Dollar"  [] c = "." -> "Dot"     [] c = "+" -> "Plus"
    [] c = "-" -> "Minus"   [] c = "*" -> "Star"    [] c = "/" -> "Slash"
    [] c = "{" -> "LCurly"  [] c = "}" -> "RCurly"  [] c = "[" -> "LSquare"
    [] c = "]" -> "RSquare" [] c = "<" -> "LAngle"  [] c = ">" -> "RAngle"
    [] c = "," -> "Comma"   [] c = ";" -> "Semicolon"
    [] OTHER -> "none"

\* Lexer::next_token: the match on the character c that advance() returned,
\* lx being the lexer after it. <<lexer, token>>
TokenMatch(lx, c) ==
  IF c = NoChar THEN << lx, SimpleToken(lx, "EOF") >>
  ELSE IF IsAsciiAlphabetic(c) THEN LexIdentifier(lx)
  ELSE IF IsAsciiDigit(c) THEN LexNumber(lx)
  ELSE IF c = "\"" THEN LexString(lx)
  ELSE IF PunctKind(c) # "none" THEN << lx, SimpleToken(lx, PunctKind(c)) >>
  ELSE IF c = "=" THEN
         IF Peek(lx) = "=" THEN << LexAdvance(lx), SimpleToken(lx, "EqualEqual") >>
         ELSE << lx, SimpleToken(lx, "Equal") >>
  ELSE << lx, ErrToken(lx, "unexpected character") >>

\* Lexer::next_token after skip_whitespace: self.token_start = self.pos, then
\* the match on self.advance()
TokenAt(lx) ==
  TokenMatch(LexAdvance([lx EXCEPT !.token_start = lx.pos]),
             AdvanceChar([lx EXCEPT !.token_start = lx.pos]))

\* Lexer::next_token: <<lexer, token>>
NextToken(lx0) == TokenAt(SkipWhitespace(lx0))

\* Lexer::read_regex: called when the current token is the `/` that opens a
\* regex literal; reads up to the next unescaped `/`, turning `\/` into `/`
\* and keeping every other escape as written. <<lexer, token>>
RECURSIVE ReadRegexFrom(_, _)
ReadRegexFrom(lx, acc) ==
  LET c == Peek(lx)
      n == CharAt(lx.src, lx.pos + 1)
  IN  IF c = NoChar THEN << lx, ErrToken(lx, "unexpected EOF in regex") >>
      ELSE IF c = "/" THEN << LexAdvance(lx), StrToken(lx, "Regex", acc) >>
      ELSE IF c = "\\" /\ n = "/" THEN ReadRegexFrom(LexAdvance(LexAdvance(lx)), acc \o "/")
      ELSE IF c = "\\" /\ n # NoChar THEN ReadRegexFrom(LexAdvance(LexAdvance(lx)), acc \o c \o n)
      ELSE ReadRegexFrom(LexAdvance(lx), acc \o c)

ReadRegex(lx) == ReadRegexFrom(lx, "")

\* ------------------------------------------------------------------------
\* vm.rs: values and opcodes
\* ------------------------------------------------------------------------

Abs(i) == IF i < 0 THEN -i ELSE i

RECURSIVE Gcd(_, _)
Gcd(a, b) == IF b = 0 THEN a ELSE Gcd(b, a % b)

\* Value::Num(f64). A finite number is the fraction n/d in lowest terms with
\* d > 0; d = 0 holds the IEEE specials: n = 1 is +inf, n = -1 is -inf and
\* n = 0 is NaN. Rounding and the sign of zero are not represented.
Num(n, d) ==
  IF d = 0 THEN [t |-> "Num", n |-> (IF n > 0 THEN 1 ELSE IF n < 0 THEN -1 ELSE 0), d |-> 0]
  ELSE LET g == Gcd(Abs(n), Abs(d))
           sg == IF d < 0 THEN -1 ELSE 1
       IN  [t |-> "Num", n |-> sg * (n \div g), d |-> sg * (d \div g)]

NumI(i) == Num(i, 1)

\* Value::Str, Value::Regex, Value::Array, Value::Object
Str(s) == [t |-> "Str", s |-> s]
Regex(r) == [t |-> "Regex", r |-> r]
Array(a) == [t |-> "Array", a |-> a]
Object(o) == [t |-> "Object", o |-> o]

\* serde_json::Value, as parsed: members of an object are in the order the
\* map iterates them.
JNull == [j |-> "null"]
JBool(b) == [j |-> "bool", b |-> b]
JNumber(n) == [j |-> "number", n |-> n]
JString(s) == [j |-> "string", s |-> s]
JArray(items) == [j |-> "array", items |-> items]
JObject(members) == [j |-> "object", members |-> members]
JMember(k, v) == [k |-> k, v |-> v]

\* a Value::from that keeps the truth of a boolean as 1 and 0
ValueFrom_Bool(v) ==
  IF v.j = "array" THEN Array(v)
  ELSE IF v.j = "object" THEN Object(v)
  ELSE IF v.j = "string" THEN Str(v.s)
  ELSE IF v.j = "number" THEN NumI(v.n)
  ELSE IF v.j = "bool" /\ v.b THEN NumI(1)
  ELSE NumI(0)

\* Value::from
ValueFrom(v) ==
  IF v.j = "array" THEN Array(v)
  ELSE IF v.j = "object" THEN Object(v)
  ELSE IF v.j = "string" THEN Str(v.s)
  ELSE IF v.j = "number" THEN NumI(v.n)
  ELSE NumI(0)

\* Value::from_opt; Option<&serde_json::Value> is a sequence of length <= 1
ValueFromOpt(o) == IF o = None THEN NumI(0) ELSE ValueFrom(Unwrap(o))

IsNaN(x) == x.d = 0 /\ x.n = 0
Sign(i) == IF i > 0 THEN 1 ELSE IF i < 0 THEN -1 ELSE 0

\* f64 == f64
NumEq(a, b) == ~IsNaN(a) /\ ~IsNaN(b) /\ a.n = b.n /\ a.d = b.d

\* f64 > f64
NumGt(a, b) ==
  IF IsNaN(a) \/ IsNaN(b) THEN FALSE
  ELSE IF a.d = 0 /\ b.d = 0 THEN a.n > b.n
  ELSE IF a.d = 0 THEN a.n > 0
  ELSE IF b.d = 0 THEN b.n < 0
  ELSE a.n * b.d > b.n * a.d

\* f64 + f64, f64 - f64, f64 * f64, f64 / f64
NumAdd(a, b) ==
  IF IsNaN(a) \/ IsNaN(b) THEN Num(0, 0)
  ELSE IF a.d = 0 /\ b.d = 0 THEN (IF a.n = b.n THEN a ELSE Num(0, 0))
  ELSE IF a.d = 0 THEN a
  ELSE IF b.d = 0 THEN b
  ELSE Num(a.n * b.d + b.n * a.d, a.d * b.d)

NumNeg(a) == [a EXCEPT !.n = -a.n]

NumSub(a, b) == NumAdd(a, NumNeg(b))

NumMul(a, b) ==
  IF a.d = 0 \/ b.d = 0 THEN Num(Sign(a.n) * Sign(b.n), 0)
  ELSE Num(a.n * b.n, a.d * b.d)

NumDiv(a, b) ==
  IF IsNaN(a) \/ IsNaN(b) THEN Num(0, 0)
  ELSE IF a.d = 0 /\ b.d = 0 THEN Num(0, 0)
  ELSE IF a.d = 0 THEN Num(a.n * (IF b.n < 0 THEN -1 ELSE 1), 0)
  ELSE IF b.d = 0 THEN NumI(0)
  ELSE IF b.n = 0 THEN Num(Sign(a.n), 0)
  ELSE Num(a.n * b.d, a.d * b.n)

\* usize::MAX, the value a saturating cast stops at; the model's integers end
\* at 2^31 - 1, which like usize::MAX lies beyond the length of every array
UsizeMax == 2147483647

\* `f64 as usize`: truncates toward zero and saturates; NaN gives 0
AsUsize(x) ==
  IF IsNaN(x) THEN 0
  ELSE IF x.d = 0 THEN (IF x.n > 0 THEN UsizeMax ELSE 0)
  ELSE IF x.n < 0 THEN 0
  ELSE IF x.n \div x.d > UsizeMax THEN UsizeMax
  ELSE x.n \div x.d

DigitChars == "0123456789"

\* decimal digits of a natural number
RECURSIVE NatToStr(_)
NatToStr(i) ==
  IF i < 10 THEN SubSeq(DigitChars, i + 1, i + 1)
  ELSE NatToStr(i \div 10) \o SubSeq(DigitChars, (i % 10) + 1, (i % 10) + 1)

\* the fraction digits of rem/d; the expansion is cut after `left` digits
\* where f64 formatting would round
RECURSIVE FracDigits(_, _, _)
FracDigits(rem, d, left) ==
  IF rem = 0 \/ left = 0 THEN ""
  ELSE NatToStr((rem * 10) \div d) \o FracDigits((rem * 10) % d, d, left - 1)

\* the number of fraction digits kept when formatting
MaxFracDigits == 16

\* format!("{}", f64) and f64::to_string
FormatNum(x) ==
  IF IsNaN(x) THEN "NaN"
  ELSE IF x.d = 0 THEN (IF x.n > 0 THEN "inf" ELSE "-inf")
  ELSE LET a == Abs(x.n)
           sg == IF x.n < 0 THEN "-" ELSE ""
       IN  IF a % x.d = 0 THEN sg \o NatToStr(a \div x.d)
           ELSE sg \o NatToStr(a \div x.d) \o "." \o FracDigits(a % x.d, x.d, MaxFracDigits)

\* the digits-and-point part of str::parse::<f64>: <<digits read as one
\* number, 10^(digits after the point) or 0 without a point>>, or <<>> when
\* s is not of the form digits [. digits]
RECURSIVE ParseDecimal(_, _, _, _, _)
ParseDecimal(s, i, acc, scale, seen) ==
  IF i > Len(s) THEN (IF seen THEN <<acc, scale>> ELSE <<>>)
  ELSE LET c == SubSeq(s, i, i) IN
       IF IsAsciiDigit(c)
       THEN ParseDecimal(s, i + 1, acc * 10 + (CharCode(c) - 48),
                         IF scale = 0 THEN 0 ELSE scale * 10, TRUE)
       ELSE IF c = "." /\ scale = 0 THEN ParseDecimal(s, i + 1, acc, 1, seen)
       ELSE <<>>

\* s.parse().unwrap_or(0.0): an optional sign, digits, an optional point and
\* digits; every other text gives 0 (exponents and the words inf/nan are not
\* represented)
ParseF64(s) ==
  LET first == IF Len(s) > 0 THEN SubSeq(s, 1, 1) ELSE ""
      signed == first = "-" \/ first = "+"
      r == ParseDecimal(s, IF signed THEN 2 ELSE 1, 0, 0, FALSE)
  IN  IF r = <<>> THEN NumI(0)
      ELSE Num((IF first = "-" THEN -1 ELSE 1) * r[1], IF r[2] = 0 THEN 1 ELSE r[2])

\* Value::as_f64
AsF64(v) ==
  IF v.t = "Num" THEN v
  ELSE IF v.t = "Str" THEN ParseF64(v.s)
  ELSE NumI(0)

\* a compare that is the derived equality of the values
Compare_Structural(a, b) == a = b

\* Value::compare
Compare(a, b) ==
  IF a.t = "Str" /\ b.t = "Str" THEN a.s = b.s
  ELSE IF a.t = "Num" /\ b.t = "Num" THEN NumEq(a, b)
  ELSE FALSE

\* a Value::truthy that takes arrays, objects and regexes for true
Truthy_Any(v) ==
  IF v.t = "Str" THEN Len(v.s) > 0
  ELSE IF v.t = "Num" THEN ~NumEq(v, NumI(0))
  ELSE TRUE

\* Value::truthy
Truthy(v) ==
  IF v.t = "Str" THEN Len(v.s) > 0
  ELSE IF v.t = "Num" THEN ~NumEq(v, NumI(0))
  ELSE FALSE

\* String > String: byte-wise lexicographic order
RECURSIVE StrGt(_, _)
StrGt(l, r) ==
  IF Len(l) = 0 THEN FALSE
  ELSE IF Len(r) = 0 THEN TRUE
  ELSE LET a == CharCode(SubSeq(l, 1, 1))
           b == CharCode(SubSeq(r, 1, 1))
       IN  IF a # b THEN a > b ELSE StrGt(SubSeq(l, 2, Len(l)), SubSeq(r, 2, Len(r)))

\* a string as serde_json writes it: quoted, with `"` and `\` escaped
RECURSIVE JsonEscape(_)
JsonEscape(s) ==
  IF Len(s) = 0 THEN ""
  ELSE LET c == SubSeq(s, 1, 1) IN
       (IF c = "\"" \/ c = "\\" THEN "\\" \o c ELSE c) \o JsonEscape(SubSeq(s, 2, Len(s)))

\* Display of serde_json::Value: the compact serialisation
RECURSIVE JsonToString(_), JsonItems(_, _), JsonMembers(_, _)
JsonToString(v) ==
  CASE v.j = "null"   -> "null"
    [] v.j = "bool"   -> (IF v.b THEN "true" ELSE "false")
    [] v.j = "number" -> (IF v.n < 0 THEN "-" ELSE "") \o NatToStr(Abs(v.n))
    [] v.j = "string" -> "\"" \o JsonEscape(v.s) \o "\""
    [] v.j = "array"  -> "[" \o JsonItems(v.items, 1) \o "]"
    [] v.j = "object" -> "{" \o JsonMembers(v.members, 1) \o "}"

JsonItems(items, i) ==
  IF i > Len(items) THEN ""
  ELSE (IF i > 1 THEN "," ELSE "") \o JsonToString(items[i]) \o JsonItems(items, i + 1)

JsonMembers(ms, i) ==
  IF i > Len(ms) THEN ""
  ELSE (IF i > 1 THEN "," ELSE "") \o "\"" \o JsonEscape(ms[i].k) \o "\":"
       \o JsonToString(ms[i].v) \o JsonMembers(ms, i + 1)

\* impl fmt::Display for Value
Display(v) ==
  CASE v.t = "Str"    -> v.s
    [] v.t = "Regex"  -> "/" \o v.r \o "/"
    [] v.t = "Num"    -> FormatNum(v)
    [] v.t = "Array"  -> JsonToString(v.a)
    [] v.t = "Object" -> JsonToString(v.o)

\* serde_json Map::get: the member's value or None
MapGet(members, key) ==
  IF \E i \in 1..Len(members) : members[i].k = key
  THEN Some(members[CHOOSE i \in 1..Len(members) : members[i].k = key].v)
  ELSE None

\* arr.iter().nth(idx)
ArrayNth(items, idx) == IF idx < Len(items) THEN Some(items[idx + 1]) ELSE None

\* The regex crate, for the patterns of the model: a pattern is a sequence
\* of literal characters, `.` and backslash escapes of punctuation, with an
\* optional `^` in front and `$` at the end. Of the other syntax only the
\* unclosed group is represented (Regex::new fails on it).
RECURSIVE RegexAtoms(_, _)
RegexAtoms(r, i) ==
  IF i > Len(r) THEN <<>>
  ELSE LET c == SubSeq(r, i, i) IN
       IF c = "\\" /\ i < Len(r)
       THEN <<[any |-> FALSE, c |-> SubSeq(r, i + 1, i + 1)]>> \o RegexAtoms(r, i + 2)
       ELSE IF c = "." THEN <<[any |-> TRUE, c |-> ""]>> \o RegexAtoms(r, i + 1)
       ELSE IF c = "^" /\ i = 1 THEN RegexAtoms(r, i + 1)
       ELSE IF c = "$" /\ i = Len(r) THEN <<>>
       ELSE <<[any |-> FALSE, c |-> c]>> \o RegexAtoms(r, i + 1)

\* Regex::new(r).is_err()
RegexIsErr(r) ==
  \/ \E i \in 1..Len(r) : /\ SubSeq(r, i, i) = "("
                          /\ (i = 1 \/ SubSeq(r, i - 1, i - 1) # "\\")
                          /\ \A k \in (i + 1)..Len(r) : SubSeq(r, k, k) # ")"
  \/ (Len(r) > 0 /\ SubSeq(r, Len(r), Len(r)) = "\\"
        /\ (Len(r) = 1 \/ SubSeq(r, Len(r) - 1, Len(r) - 1) # "\\"))

\* Regex::is_match: the pattern matches somewhere in s
RegexIsMatch(r, s) ==
  LET atoms == RegexAtoms(r, 1)
      k == Len(atoms)
      anchoredStart == Len(r) > 0 /\ SubSeq(r, 1, 1) = "^"
      anchoredEnd == /\ Len(r) > 0
                     /\ SubSeq(r, Len(r), Len(r)) = "$"
                     /\ (Len(r) = 1 \/ SubSeq(r, Len(r) - 1, Len(r) - 1) # "\\")
  IN  \E i \in 0..(Len(s) - k) :
        /\ anchoredStart => i = 0
        /\ anchoredEnd => i + k = Len(s)
        /\ \A m \in 1..k :
             IF atoms[m].any THEN SubSeq(s, i + m, i + m) # "\n"
             ELSE SubSeq(s, i + m, i + m) = atoms[m].c

\* enum OpCode
OpGetField(name) == [op |-> "GetField", name |-> name]
OpPushImmediate(v) == [op |-> "PushImmediate", val |-> v]
OpGetGlobal(name) == [op |-> "GetGlobal", name |-> name]
OpSetGlobal(name) == [op |-> "SetGlobal", name |-> name]
OpPrint(argc) == [op |-> "Print", argc |-> argc]
Op(name) == [op |-> name]

\* ------------------------------------------------------------------------
\* compiler.rs
\* ------------------------------------------------------------------------

\* enum Precedence
PrecNone == 0
PrecAssignment == 1
PrecLogical == 2
PrecEqual == 3
PrecComparison == 4
PrecAddition == 5
PrecMultiplication == 6
PrecFunc == 7

\* Compiler::get_rule; handlers are named by the method they call
GetRule(kind) ==
  CASE kind = "Dollar"     -> [prec |-> PrecNone, prefix |-> "field", infix |-> "none"]
    [] kind = "Str"        -> [prec |-> PrecNone, prefix |-> "string", infix |-> "none"]
    [] kind = "Num"        -> [prec |-> PrecNone, prefix |-> "number", infix |-> "none"]
    [] kind = "Identifier" -> [prec |-> PrecNone, prefix |-> "variable", infix |-> "none"]
    [] kind = "Dot"        -> [prec |-> PrecFunc, prefix |-> "none", infix |-> "member"]
    [] kind = "Equal"      -> [prec |-> PrecAssignment, prefix |-> "none", infix |-> "assign"]
    [] kind = "EqualEqual" -> [prec |-> PrecEqual, prefix |-> "none", infix |-> "binary"]
    [] kind = "And"        -> [prec |-> PrecLogical, prefix |-> "none", infix |-> "binary"]
    [] kind = "Or"         -> [prec |-> PrecLogical, prefix |-> "none", infix |-> "binary"]
    [] kind = "Tilde"      -> [prec |-> PrecEqual, prefix |-> "none", infix |-> "binary"]
    [] kind = "BangTilde"  -> [prec |-> PrecEqual, prefix |-> "none", infix |-> "binary"]
    [] kind = "LSquare"    -> [prec |-> PrecFunc, prefix |-> "none", infix |-> "computed_member"]
    [] kind = "RAngle"     -> [prec |-> PrecComparison, prefix |-> "none", infix |-> "binary"]
    [] kind = "Plus"       -> [prec |-> PrecAddition, prefix |-> "none", infix |-> "binary"]
    [] kind = "Minus"      -> [prec |-> PrecAddition, prefix |-> "none", infix |-> "binary"]
    [] kind = "Star"       -> [prec |-> PrecMultiplication, prefix |-> "none", infix |-> "binary"]
    [] kind = "Slash"      -> [prec |-> PrecMultiplication, prefix |-> "regex", infix |-> "binary"]
    [] OTHER               -> [prec |-> PrecNone, prefix |-> "none", infix |-> "none"]

\* Compiler::new. status is "ok" while compiling, "error" once a SyntaxError
\* {msg, line} was returned and "panic" once the thread panicked. stashed is
\* the history of the opcodes assign() took off the output.
NewCompiler(lexer) ==
  [lexer |-> lexer,
   current |-> [kind |-> "EOF", str |-> None, line |-> 0],
   prev |-> [kind |-> "EOF", str |-> None, line |-> 0],
   output |-> <<>>,
   status |-> "ok", msg |-> "", line |-> 0,
   stashed |-> <<>>]

\* Compiler::error, Err(SyntaxError {msg, line})
SyntaxError(c, msg, line) == [c EXCEPT !.status = "error", !.msg = msg, !.line = line]

\* panic!(..) and unwrap() on None
Panic(c, msg) == [c EXCEPT !.status = "panic", !.msg = msg]

Ok(c) == c.status = "ok"

\* The `?` operator: once a call has returned Err (or the thread panicked)
\* the function returns at once, so every later step hands the compiler on
\* as it is.

\* self.prev.clone().str.unwrap()
PrevStr(c) == Unwrap(c.prev.str)

\* Compiler::advance, r being <<lexer, token>> of self.lexer.next_token()
AdvanceTo(c, r) ==
  IF r[2].kind = "Error"
  THEN SyntaxError([c EXCEPT !.lexer = r[1]], Unwrap(r[2].str), r[2].line)
  ELSE [c EXCEPT !.lexer = r[1], !.prev = c.current, !.current = r[2]]

\* Compiler::advance
Advance(c) == IF ~Ok(c) THEN c ELSE AdvanceTo(c, NextToken(c.lexer))

\* Compiler::consume
Consume(c, kind) ==
  IF ~Ok(c) THEN c
  ELSE IF c.current.kind # kind
  THEN SyntaxError(c, "unexpected token", c.current.line)
  ELSE Advance(c)

\* Compiler::emit
Emit(c, opcode) == IF ~Ok(c) THEN c ELSE [c EXCEPT !.output = Append(c.output, opcode)]

\* Compiler::at_statement_end
AtStatementEnd(c) == c.current.kind \in {"Semicolon", "RCurly"}

\* str.parse::<f64>() of a token of digits
RECURSIVE ParseDigits(_)
ParseDigits(s) ==
  IF Len(s) = 0 THEN 0
  ELSE 10 * ParseDigits(SubSeq(s, 1, Len(s) - 1)) + (CharCode(SubSeq(s, Len(s), Len(s))) - 48)

\* Compiler::field
Field(c) == Emit(Consume(c, "Dollar"), OpGetField(""))

\* Compiler::variable: consume, then (VariableEmit) emit GetGlobal of prev
VariableEmit(c) == Emit(c, OpGetGlobal(PrevStr(c)))

Variable(c) == VariableEmit(Consume(c, "Identifier"))

\* Compiler::string: consume, then (StringEmit) emit the immediate of prev
StringEmit(c) == Emit(c, OpPushImmediate(Str(PrevStr(c))))

String(c) == StringEmit(Consume(c, "Str"))

\* Compiler::number: consume, then (NumberEmit) emit the parsed number
NumberEmit(c) == Emit(c, OpPushImmediate(NumI(ParseDigits(PrevStr(c)))))

Number(c) == NumberEmit(Consume(c, "Num"))

\* Compiler::regex: the match on the token of self.lexer.read_regex(), r
\* being <<lexer, token>>
RegexRead(c, r) ==
  IF r[2].kind = "Error"
  THEN SyntaxError([c EXCEPT !.lexer = r[1]], "error on line", r[2].line)
  ELSE [c EXCEPT !.lexer = r[1], !.prev = c.current, !.current = r[2]]

\* Compiler::regex: after advance, emit the immediate of prev
RegexEmit(c) == Emit(c, OpPushImmediate(Regex(PrevStr(c))))

\* Compiler::regex
CompileRegex(c) == RegexEmit(Advance(RegexRead(c, ReadRegex(c.lexer))))

\* Compiler::member: after both consumes, emit the name and GetMember
MemberEmit(c) == Emit(Emit(c, OpPushImmediate(Str(PrevStr(c)))), Op("GetMember"))

\* Compiler::member
Member(c) == MemberEmit(Consume(Consume(c, "Dot"), "Identifier"))

\* a binary whose BangTilde arm emits Negate alone
BinaryOpcodes_NegateOnly(kind) ==
  CASE kind = "EqualEqual" -> <<Op("Equal")>>
    [] kind = "And"        -> <<Op("And")>>
    [] kind = "Or"         -> <<Op("Or")>>
    [] kind = "RAngle"     -> <<Op("Greater")>>
    [] kind = "Plus"       -> <<Op("Add")>>
    [] kind = "Minus"      -> <<Op("Subtract")>>
    [] kind = "Star"       -> <<Op("Multiply")>>
    [] kind = "Slash"      -> <<Op("Divide")>>
    [] kind = "Tilde"      -> <<Op("Match")>>
    [] kind = "BangTilde"  -> <<Op("Negate")>>
    [] OTHER               -> <<>>

\* The opcodes Compiler::binary emits for an operator token; <<>> is the
\* "unknown operator" arm
BinaryOpcodes(kind) ==
  CASE kind = "EqualEqual" -> <<Op("Equal")>>
    [] kind = "And"        -> <<Op("And")>>
    [] kind = "Or"         -> <<Op("Or")>>
    [] kind = "RAngle"     -> <<Op("Greater")>>
    [] kind = "Plus"       -> <<Op("Add")>>
    [] kind = "Minus"      -> <<Op("Subtract")>>
    [] kind = "Star"       -> <<Op("Multiply")>>
    [] kind = "Slash"      -> <<Op("Divide")>>
    [] kind = "Tilde"      -> <<Op("Match")>>
    [] kind = "BangTilde"  -> <<Op("Match"), Op("Negate")>>
    [] OTHER               -> <<>>

\* The precedence Compiler::binary parses its right operand at
BinaryRhsPrec(kind) == GetRule(kind).prec

\* Compiler::binary: the match on token.kind after the right operand
BinaryEmit(c, token) ==
  IF ~Ok(c) THEN c
  ELSE IF BinaryOpcodes(token.kind) = <<>>
  THEN SyntaxError(c, "unknown operator", token.line)
  ELSE [c EXCEPT !.output = c.output \o BinaryOpcodes(token.kind)]

\* Compiler::assign: self.output.pop(), the opcode kept in stashed
PopOutput(c) ==
  [c EXCEPT !.output = SubSeq(c.output, 1, Len(c.output) - 1),
            !.stashed = Append(c.stashed, c.output[Len(c.output)])]

\* Compiler::assign: the match on last_opcode after the right-hand side
AssignEmit(c, last_opcode) ==
  IF ~Ok(c) THEN c
  ELSE IF last_opcode.op = "GetGlobal"
  THEN Emit(c, OpSetGlobal(last_opcode.name))
  ELSE Panic(c, "expected a Get opcode before assign")

RECURSIVE Expression(_, _), ExprLoop(_, _), CallPrefix(_, _), CallInfix(_, _),
          Binary(_), ComputedMember(_), Assign(_), AssignStash(_)

\* Compiler::expression
Expression(c, prec) ==
  IF ~Ok(c) THEN c
  ELSE IF GetRule(c.current.kind).prefix = "none"
  THEN SyntaxError(c, "unexpected prefix", c.current.line)
  ELSE ExprLoop(CallPrefix(GetRule(c.current.kind).prefix, c), prec)

\* the while loop of Compiler::expression
ExprLoop(c, prec) ==
  IF ~Ok(c) THEN c
  ELSE IF prec <= GetRule(c.current.kind).prec
  THEN IF GetRule(c.current.kind).infix = "none"
       THEN SyntaxError(c, "unexpected infix", c.current.line)
       ELSE ExprLoop(CallInfix(GetRule(c.current.kind).infix, c), prec)
  ELSE c

\* the call of a ParseRule's prefix closure
CallPrefix(h, c) ==
  CASE h = "field"    -> Field(c)
    [] h = "string"   -> String(c)
    [] h = "number"   -> Number(c)
    [] h = "variable" -> Variable(c)
    [] h = "regex"    -> CompileRegex(c)

\* the call of a ParseRule's infix closure
CallInfix(h, c) ==
  CASE h = "member"          -> Member(c)
    [] h = "computed_member" -> ComputedMember(c)
    [] h = "assign"          -> Assign(c)
    [] h = "binary"          -> Binary(c)

\* Compiler::binary
Binary(c) == BinaryEmit(Expression(Advance(c), BinaryRhsPrec(c.current.kind)), c.current)

\* Compiler::computed_member
ComputedMember(c) ==
  Emit(Consume(Expression(Consume(c, "LSquare"), PrecAssignment), "RSquare"), Op("GetMember"))

\* Compiler::assign, after consume(Equal): pop the last opcode, compile the
\* right-hand side, flip the Get to a Set
AssignStash(c) ==
  IF ~Ok(c) THEN c
  ELSE IF c.output = <<>> THEN Panic(c, "called Option::unwrap() on a None value")
  ELSE AssignEmit(Expression(PopOutput(c), PrecAssignment), c.output[Len(c.output)])

\* Compiler::assign
Assign(c) == AssignStash(Consume(c, "Equal"))

RECURSIVE PrintArgs(_, _), PrintArgsNext(_, _)

\* the while loop of the print arm of Compiler::statement
PrintArgs(c, arg_count) ==
  IF ~Ok(c) THEN c
  ELSE IF AtStatementEnd(c) THEN Emit(c, OpPrint(arg_count))
  ELSE PrintArgsNext(Expression(c, PrecAssignment), arg_count + 1)

\* the rest of the loop's body, after the expression and arg_count += 1
PrintArgsNext(c, arg_count) ==
  IF ~Ok(c) THEN c
  ELSE IF c.current.kind = "Comma" THEN PrintArgs(Consume(c, "Comma"), arg_count)
  ELSE Emit(c, OpPrint(arg_count))

\* Compiler::statement
Statement(c) ==
  IF c.current.kind = "Print" THEN PrintArgs(Consume(c, "Print"), 0)
  ELSE Expression(c, PrecAssignment)

RECURSIVE Statements(_), StatementsNext(_)

\* the while loop of the body of Compiler::compile_rule
Statements(c) ==
  IF ~Ok(c) THEN c
  ELSE IF c.current.kind = "RCurly" THEN c
  ELSE StatementsNext(Statement(c))

\* the rest of the loop's body, after the statement
StatementsNext(c) ==
  IF ~Ok(c) THEN c
  ELSE IF c.current.kind # "RCurly" THEN Statements(Consume(c, "Semicolon"))
  ELSE Statements(c)

\* self.output.clear()
ClearOutput(c) == [c EXCEPT !.output = <<>>]

\* Compiler::compile_rule: rule_kind
RuleKind(kind) ==
  CASE kind = "Begin" -> "Begin" [] kind = "End" -> "End" [] OTHER -> "Match"

\* a compile_rule that reads a pattern after BEGIN and END when no `{`
\* follows the keyword
OptionalPattern(c) ==
  IF ~Ok(c) \/ c.current.kind = "LCurly" THEN c ELSE Expression(c, PrecAssignment)

RulePattern_Optional(c) ==
  CASE c.current.kind = "LCurly" -> c
    [] c.current.kind \in {"Begin", "End"} -> OptionalPattern(Consume(c, c.current.kind))
    [] OTHER -> Expression(c, PrecAssignment)

\* Compiler::compile_rule: the match on self.current.kind
RulePattern(c) ==
  CASE c.current.kind = "LCurly" -> c
    [] c.current.kind = "Begin" -> Consume(c, "Begin")
    [] c.current.kind = "End" -> Consume(c, "End")
    [] OTHER -> Expression(c, PrecAssignment)

\* Compiler::compile_rule: the body, after self.output.clear()
RuleBody(c) ==
  IF c.current.kind # "LCurly" THEN Emit(c, OpPrint(0))
  ELSE Consume(Statements(Consume(c, "LCurly")), "RCurly")

\* Compiler::compile_rule: the JqaRule returned, c being the compiler after
\* the body
RuleEnd(c, pattern, rule_kind) ==
  IF ~Ok(c) THEN [c |-> c, rule |-> <<>>]
  ELSE [c |-> ClearOutput(c),
        rule |-> <<[pattern |-> pattern, body |-> c.output, kind |-> rule_kind]>>]

\* Compiler::compile_rule from `let pattern` on, c being the compiler after
\* the pattern
RuleAfterPattern(c, rule_kind) ==
  IF ~Ok(c) THEN [c |-> c, rule |-> <<>>]
  ELSE RuleEnd(RuleBody(ClearOutput(c)), c.output, rule_kind)

\* Compiler::compile_rule: the compiler afterwards and the JqaRule returned
CompileRule(c) == RuleAfterPattern(RulePattern(c), RuleKind(c.current.kind))

RECURSIVE CompileRulesLoop(_, _), RulesPush(_, _)

\* the while loop of Compiler::compile_rules
CompileRulesLoop(c, rules) ==
  IF ~Ok(c) THEN [c |-> c, rules |-> <<>>]
  ELSE IF c.current.kind = "EOF" THEN [c |-> c, rules |-> rules]
  ELSE RulesPush(CompileRule(c), rules)

\* let rule = self.compile_rule()?; rules.push(rule)
RulesPush(r, rules) ==
  IF ~Ok(r.c) THEN [c |-> r.c, rules |-> <<>>]
  ELSE CompileRulesLoop(r.c, rules \o r.rule)

\* Compiler::compile_rules on a fresh compiler for the source text
CompileRules(src) == CompileRulesLoop(Advance(NewCompiler(NewLexer(src))), <<>>)

\* Compiler::compile_expression on a fresh compiler for the source text
CompileExpression(src) == Expression(Advance(NewCompiler(NewLexer(src))), PrecAssignment)

\* ------------------------------------------------------------------------
\* vm.rs: Vm::eval
\* ------------------------------------------------------------------------

\* HashMap::insert
MapInsert(m, k, v) == [n \in DOMAIN m \cup {k} |-> IF n = k THEN v ELSE m[n]]

EmptyMap == [n \in {} |-> NumI(0)]

\* Vm::new: the variables of a fresh Vm
NewVariables == MapInsert(EmptyMap, "NR", NumI(0))

\* an arithmetic negation in place of the logical one
NegateResult_Minus(v) == NumNeg(v)

\* OpCode::Negate on Num(n): if n == 0.0 { 1.0 } else { 0.0 }
NegateResult(v) == IF NumEq(v, NumI(0)) THEN NumI(1) ELSE NumI(0)

\* The outcome of one iteration of the loop of Vm::eval: res is "ok" when
\* the loop goes on with the next opcode, "break" when it leaves the loop and
\* "error" when eval returns Err(RuntimeError {msg}); stack and variables are
\* the Vm's afterwards and printed holds the line written to stdout, if any.
Outcome(res, msg, stack, variables, printed) ==
  [res |-> res, msg |-> msg, stack |-> stack, variables |-> variables, printed |-> printed]

EmptyPop == "attempted to pop an empty stack"

Top(stack) == stack[Len(stack)]

\* the stack after k calls of Vec::pop
PopN(stack, k) == SubSeq(stack, 1, Len(stack) - k)

\* args.join(" ") of the Display texts of the values
RECURSIVE JoinDisplay(_, _)
JoinDisplay(vals, i) ==
  IF i > Len(vals) THEN ""
  ELSE (IF i > 1 THEN " " ELSE "") \o Display(vals[i]) \o JoinDisplay(vals, i + 1)

\* OpCode::GetMember, after both operands were popped: the value pushed
\* (<<v>>) or the error message
GetMemberOf(obj, member) ==
  CASE obj.t = "Array" ->
         IF member.t # "Num" THEN [err |-> "cannot index an array", val |-> <<>>]
         ELSE [err |-> "", val |-> <<ValueFromOpt(ArrayNth(obj.a.items, AsUsize(member)))>>]
    [] obj.t = "Object" ->
         IF member.t \notin {"Str", "Num"}
         THEN [err |-> "cannot access member on object", val |-> <<>>]
         ELSE LET key == IF member.t = "Str" THEN member.s ELSE FormatNum(member)
                  val == MapGet(obj.o.members, key)
              IN  IF val = None THEN [err |-> "unknown key", val |-> <<>>]
                  ELSE [err |-> "", val |-> <<ValueFrom(Unwrap(val))>>]
    [] OTHER -> [err |-> "can only access members on objects or arrays", val |-> <<>>]

\* the Num the comparing and logical opcodes push
BoolNum(x) == IF x THEN NumI(1) ELSE NumI(0)

\* the arithmetic of Add, Subtract, Multiply, Divide and of Greater on
\* numbers, a and b being left.as_f64() and right.as_f64()
ArithResult(op, a, b) ==
  CASE op = "Add"      -> NumAdd(a, b)
    [] op = "Subtract" -> NumSub(a, b)
    [] op = "Multiply" -> NumMul(a, b)
    [] op = "Divide"   -> NumDiv(a, b)
    [] op = "Greater"  -> BoolNum(NumGt(a, b))

\* the value pushed by the opcodes that pop right then left and cannot fail
BinaryResult(op, left, right) ==
  CASE op = "Equal" -> BoolNum(Compare(left, right))
    [] op = "And"   -> BoolNum(Truthy(left) /\ Truthy(right))
    [] op = "Or"    -> BoolNum(Truthy(left) \/ Truthy(right))
    [] op = "Greater" /\ left.t = "Str" /\ right.t = "Str" -> BoolNum(StrGt(left.s, right.s))
    [] OTHER        -> ArithResult(op, AsF64(left), AsF64(right))

\* OpCode::GetGlobal: the value pushed
GetGlobalValue(variables, name) ==
  IF name \in DOMAIN variables THEN variables[name] ELSE NumI(0)

\* a SetGlobal that pops the value and stores nothing
SetGlobalInsert_Drop(variables, name, val) == variables

\* OpCode::SetGlobal: the variables after the insert
SetGlobalInsert(variables, name, val) == MapInsert(variables, name, val)

\* OpCode::GetField: the value pushed for `$`
GetFieldRoot(fields) == fields["root"]

\* OpCode::GetMember: push the value found or return the error, r being what
\* GetMemberOf gave and st the stack after the two pops
PushResult(r, st, variables) ==
  IF r.val = <<>> THEN Outcome("error", r.err, st, variables, <<>>)
  ELSE Outcome("ok", "", Append(st, r.val[1]), variables, <<>>)

\* One opcode of the match in Vm::eval
ExecOp(op, fields, variables, stack) ==
  LET n == Len(stack)
      ok(st) == Outcome("ok", "", st, variables, <<>>)
      err(msg, st) == Outcome("error", msg, st, variables, <<>>)
  IN
  CASE op.op = "GetField" ->
         IF Len(op.name) = 0 THEN ok(Append(stack, GetFieldRoot(fields)))
         ELSE IF op.name \notin DOMAIN fields THEN err("unknown field", stack)
         ELSE ok(Append(stack, fields[op.name]))
    [] op.op = "PushImmediate" -> ok(Append(stack, op.val))
    [] op.op = "GetMember" ->
         IF n = 0 THEN err(EmptyPop, stack)
         ELSE IF n = 1 THEN err(EmptyPop, PopN(stack, 1))
         ELSE PushResult(GetMemberOf(stack[n - 1], stack[n]), PopN(stack, 2), variables)
    [] op.op \in {"Equal", "And", "Or", "Add", "Subtract", "Multiply", "Divide", "Greater"} ->
         IF n = 0 THEN err(EmptyPop, stack)
         ELSE IF n = 1 THEN err(EmptyPop, PopN(stack, 1))
         ELSE ok(Append(PopN(stack, 2), BinaryResult(op.op, stack[n - 1], stack[n])))
    [] op.op = "Match" ->
         IF n = 0 THEN err(EmptyPop, stack)
         ELSE IF n = 1 THEN err(EmptyPop, PopN(stack, 1))
         ELSE LET left == stack[n - 1]
                  right == stack[n]
              IN  IF left.t = "Str" /\ right.t = "Regex"
                  THEN IF RegexIsErr(right.r) THEN err("invalid regex", PopN(stack, 2))
                       ELSE ok(Append(PopN(stack, 2),
                                      IF RegexIsMatch(right.r, left.s) THEN NumI(1) ELSE NumI(0)))
                  ELSE err("can only match a string against a regex", PopN(stack, 2))
    [] op.op = "Negate" ->
         IF n = 0 THEN err(EmptyPop, stack)
         ELSE IF stack[n].t = "Num"
              THEN ok(Append(PopN(stack, 1), NegateResult(stack[n])))
              ELSE err("can only negate a number", PopN(stack, 1))
    [] op.op = "Print" ->
         IF op.argc = 0
         THEN Outcome("break", "", stack, variables, <<Display(fields["root"])>>)
         ELSE IF n < op.argc THEN err(EmptyPop, <<>>)
         ELSE Outcome("ok", "", PopN(stack, op.argc), variables,
                      <<JoinDisplay(SubSeq(stack, n - op.argc + 1, n), 1)>>)
    [] op.op = "GetGlobal" -> ok(Append(stack, GetGlobalValue(variables, op.name)))
    [] op.op = "SetGlobal" ->
         IF n = 0 THEN err(EmptyPop, stack)
         ELSE Outcome("ok", "", PopN(stack, 1), SetGlobalInsert(variables, op.name, stack[n]), <<>>)
    [] OTHER -> err("unknown opcode", stack)

\* ------------------------------------------------------------------------
\* Inputs of a run: the command line and the bytes of the input
\* ------------------------------------------------------------------------

\* the largest number of elements of an input array
MaxElems == 2

\* the elements the input arrays are filled with
ElemValues ==
  { JNumber(3), JNull,
    JArray(<<JNumber(2), JString("b")>>),
    JObject(<<JMember("a", JNumber(4))>>) }

RECURSIVE SeqsUpTo(_, _)
SeqsUpTo(S, n) ==
  IF n = 0 THEN {<<>>}
  ELSE LET shorter == SeqsUpTo(S, n - 1) IN
       shorter \cup {Append(q, e) : q \in {r \in shorter : Len(r) = n - 1}, e \in S}

\* what serde_json::from_reader yields: a document, or "invalid" when the
\* bytes are not JSON
Inputs ==
  {JArray(items) : items \in SeqsUpTo(ElemValues, MaxElems)}
    \cup { JObject(<<JMember("a", JArray(<<JNumber(1), JNumber(2)>>)), JMember("b", JString("x"))>>),
           JArray(<<JString(""), JString("x")>>),
           JArray(<<JBool(TRUE), JBool(FALSE)>>),
           JObject(<<JMember("a", JBool(TRUE)), JMember("b", JNull)>>),
           JBool(TRUE),
           JNumber(7),
           [j |-> "invalid"] }

\* PROGRAM (or the content of the program file)
Programs ==
  { "END { print \"end\" }\nBEGIN { print \"begin\" }",
    "END { print 1 } { print 2 } BEGIN { print 3 } END { print NR } $ > 1 { print 5 } BEGIN { print 6 }",
    "BEGIN { total = 0 }\n{ total = total + $ }\nEND { print total }",
    "{ print NR, $ }\nEND { print NR }",
    "BEGIN { NR = 5 }\n{ print NR }",
    "END { print $ } BEGIN { print $ } { print }",
    "$ > 1",
    "$",
    "{ $ }",
    "x = 1 { print }",
    "{ print $.a }\n{ x = x + 1 }\nEND { print x }",
    "{ $.a = 1 }",
    "{ x[0] = 1 }",
    "{ print",
    "{ print # }",
    "BEGIN { x = \"s\"; print x } { x = $; y = x } END { print x, y }",
    "$ ~ /Asia/",
    "BEGIN { print 1 == 1 && 2 > 1 }",
    "{ print; x = 1 } END { print x }",
    "{ print $[0 - 1] }",
    "{ print $ == $, $ == \"x\", $ == 3 }",
    "BEGIN { print /a/ == /a/ }",
    "BEGIN $ > 1 { print }",
    "{ print $, $ == 0 }" }

\* the largest operand of the generated expressions
MaxOperand == 3

Operands == {NatToStr(i) : i \in 1..MaxOperand}

\* the binary operators of the generated expressions, as written
ExprOps == {"+", "-", "*", "/", "==", ">", "&&", "||"}

\* the expressions `a op1 b op2 c`
Exprs == [a : Operands, op1 : ExprOps, b : Operands, op2 : ExprOps, c : Operands]

\* the program that prints the expression
ExprSource(e) ==
  "BEGIN { print " \o e.a \o " " \o e.op1 \o " " \o e.b \o " " \o e.op2 \o " " \o e.c \o " }"

\* the argument of -r
Selectors == { "$", "$[0]", "$.a", "x = 1", "$[" }

VARIABLES
  args,       \* the command line and input: [program, selector, program_file, input];
              \* expr holds the expression a generated program was built from
  pc,         \* where the host and Vm::run are
  rules,      \* the Vec<JqaRule> compile_rules returned
  selector,   \* the Vec<OpCode> compile_expression returned
  compiled,   \* what the two compilers ended with: status, msg, line, stashed
  fields,     \* Vm.fields
  variables,  \* Vm.variables
  stack,      \* Vm.stack
  root,       \* v of Vm::run: the value the selector left
  it,         \* the loops of run and eval_rules: [phase, elem, rule]
  frame,      \* the running call of eval: [part, code, ip, base]
  result,     \* what run returned: [done, ok, msg]
  out,        \* the lines written to stdout
  errout,     \* the lines written to stderr
  exit,       \* the exit status of the process, -1 while it runs
  trace,      \* history: the rule evaluations started, in order
  lastSet     \* history: the value of the last SetGlobal of each name

vars == <<args, pc, rules, selector, compiled, fields, variables, stack, root, it,
          frame, result, out, errout, exit, trace, lastSet>>

vmVars == <<fields, variables, stack, root, it, frame, out, trace, lastSet>>

NoFrame == [part |-> "none", code |-> <<>>, ip |-> 1, base |-> 0]

NoResult == [done |-> FALSE, ok |-> FALSE, msg |-> ""]

NotCompiled == [status |-> "none", msg |-> "", line |-> 0, stashed |-> <<>>]

Init ==
  /\ args \in [program : Programs, selector : Selectors, program_file : BOOLEAN,
                input : Inputs, expr : {<<>>}]
                 \cup {[program |-> ExprSource(e), selector |-> "$", program_file |-> FALSE,
                         input |-> JArray(<<>>), expr |-> <<e>>] : e \in Exprs}
  /\ pc = "main"
  /\ rules = <<>>
  /\ selector = <<>>
  /\ compiled = [program |-> NotCompiled, selector |-> NotCompiled]
  /\ fields = EmptyMap
  /\ variables = NewVariables
  /\ stack = <<>>
  /\ root = NumI(0)
  /\ it = [phase |-> "none", elem |-> 0, rule |-> 0]
  /\ frame = NoFrame
  /\ result = NoResult
  /\ out = <<>>
  /\ errout = <<>>
  /\ exit = -1
  /\ trace = <<>>
  /\ lastSet = EmptyMap

\* ------------------------------------------------------------------------
\* main.rs
\* ------------------------------------------------------------------------

CompileSummary(c) == [status |-> c.status, msg |-> c.msg, line |-> c.line, stashed |-> c.stashed]

\* the exit status of a process whose main thread panicked
PanicExit == 101

\* What the host does with a compiler that did not return Ok: with -f the
\* result is unwrapped (a panic); otherwise the error is printed and main
\* returns. A panic inside the compiler ends the process either way.
\* <<exit status, line on stderr>>
CompileFailure(c, program_file) ==
  IF c.status = "panic" THEN <<PanicExit, "thread 'main' panicked: " \o c.msg>>
  ELSE IF program_file THEN <<PanicExit, "thread 'main' panicked: called Result::unwrap() on an Err value">>
  ELSE <<0, "error on line " \o NatToStr(c.line) \o ": " \o c.msg>>

\* main / run_program_file: the match on the result of compile_rules(), r
\* being the compiler afterwards and the rules
ProgramCompiled(r) ==
  /\ compiled' = [compiled EXCEPT !.program = CompileSummary(r.c)]
  /\ IF Ok(r.c)
     THEN /\ rules' = r.rules
          /\ pc' = "main_selector"
          /\ UNCHANGED <<errout, exit>>
     ELSE /\ rules' = <<>>
          /\ pc' = "exit"
          /\ exit' = CompileFailure(r.c, args.program_file)[1]
          /\ errout' = Append(errout, CompileFailure(r.c, args.program_file)[2])

\* main / run_program_file: compiler.compile_rules()
CompileProgram ==
  /\ pc = "main"
  /\ ProgramCompiled(CompileRules(args.program))
  /\ UNCHANGED <<args, selector, result>>
  /\ UNCHANGED vmVars

\* main / run_program_file: the match on the result of compile_expression(),
\* c being the compiler afterwards
SelectorCompiled(c) ==
  /\ compiled' = [compiled EXCEPT !.selector = CompileSummary(c)]
  /\ IF Ok(c)
     THEN /\ selector' = c.output
          /\ pc' = "run"
          /\ UNCHANGED <<errout, exit>>
     ELSE /\ selector' = <<>>
          /\ pc' = "exit"
          /\ exit' = CompileFailure(c, args.program_file)[1]
          /\ errout' = Append(errout, CompileFailure(c, args.program_file)[2])

\* main / run_program_file: s_compiler.compile_expression()
CompileSelector ==
  /\ pc = "main_selector"
  /\ SelectorCompiled(CompileExpression(args.selector))
  /\ UNCHANGED <<args, rules, result>>
  /\ UNCHANGED vmVars

\* main: what follows vm.run(..): a runtime error is printed, main returns
MainReport ==
  /\ pc = "returned"
  /\ pc' = "exit"
  /\ exit' = 0
  /\ errout' = IF result.ok THEN errout ELSE Append(errout, "runtime error: " \o result.msg)
  /\ UNCHANGED <<args, rules, selector, compiled, result>>
  /\ UNCHANGED vmVars

\* ------------------------------------------------------------------------
\* vm.rs: Vm::run, Vm::eval_rules, for_each_in
\* ------------------------------------------------------------------------

\* return Err(RuntimeError {msg}) out of run
ReturnErr(msg) ==
  /\ pc' = "returned"
  /\ result' = [done |-> TRUE, ok |-> FALSE, msg |-> msg]

\* the call self.eval(code)
CallEval(part, code, stk) == [part |-> part, code |-> code, ip |-> 1, base |-> Len(stk)]

\* an insert that keeps the entry already there (entry().or_insert())
InsertRoot_KeepOld(f, v) == IF "root" \in DOMAIN f THEN f ELSE MapInsert(f, "root", v)

\* self.fields.insert("root", root) at the head of eval_rules
InsertRoot(f, v) == MapInsert(f, "root", v)

\* the first lines of eval_rules(rules, kind, root)
CallEvalRules(kind, v) ==
  /\ fields' = InsertRoot(fields, v)
  /\ it' = [it EXCEPT !.phase = kind, !.rule = 0]
  /\ pc' = "rules"

\* run: serde_json::from_reader(rdr).expect(..), fields.insert, eval(selector)
RunStart ==
  /\ pc = "run"
  /\ IF args.input.j = "invalid"
     THEN /\ pc' = "exit"
          /\ exit' = PanicExit
          /\ errout' = Append(errout, "thread 'main' panicked: error parsing JSON")
          /\ UNCHANGED <<fields, frame>>
     ELSE /\ fields' = InsertRoot(fields, ValueFrom(args.input))
          /\ frame' = CallEval("selector", selector, stack)
          /\ pc' = "eval"
          /\ UNCHANGED <<exit, errout>>
  /\ UNCHANGED <<args, rules, selector, compiled, variables, stack, root, it, result, out,
                 trace, lastSet>>

\* an eval that drops the error of an opcode and goes on
AfterOp_Swallow(res) ==
  CASE res = "ok" -> "next" [] res = "break" -> "leave" [] res = "error" -> "next"

\* an eval whose Print(0) arm has no break
AfterOp_NoBreak(res) ==
  CASE res = "ok" -> "next" [] res = "break" -> "next" [] res = "error" -> "return"

\* where eval goes after an opcode: the next opcode, out of the loop, or
\* out of run with the error
AfterOp(res) ==
  CASE res = "ok" -> "next" [] res = "break" -> "leave" [] res = "error" -> "return"

\* the loop of Vm::eval after the match on the opcode op, o being the
\* outcome of the match
EvalOutcome(op, o) ==
  /\ stack' = o.stack
  /\ variables' = o.variables
  /\ out' = out \o o.printed
  /\ lastSet' = IF op.op = "SetGlobal" /\ o.res = "ok"
                THEN MapInsert(lastSet, op.name, Top(stack))
                ELSE lastSet
  /\ IF AfterOp(o.res) = "return"
     THEN /\ ReturnErr(o.msg)
          /\ UNCHANGED frame
     ELSE /\ frame' = [frame EXCEPT !.ip = IF AfterOp(o.res) = "leave"
                                           THEN Len(frame.code) + 1
                                           ELSE frame.ip + 1]
          /\ UNCHANGED <<pc, result>>

\* one iteration of the loop of Vm::eval
EvalStep ==
  /\ pc = "eval"
  /\ frame.ip <= Len(frame.code)
  /\ EvalOutcome(frame.code[frame.ip], ExecOp(frame.code[frame.ip], fields, variables, stack))
  /\ UNCHANGED <<args, rules, selector, compiled, fields, root, it, errout, exit, trace>>

\* run: eval(selector) returned Ok; pop v and call eval_rules for Begin
SelectorDone ==
  /\ pc = "eval"
  /\ frame.part = "selector"
  /\ frame.ip > Len(frame.code)
  /\ frame' = NoFrame
  /\ IF stack = <<>>
     THEN /\ ReturnErr("expected a value on the stack after the selector")
          /\ UNCHANGED <<stack, root, fields, it>>
     ELSE /\ stack' = PopN(stack, 1)
          /\ root' = Top(stack)
          /\ CallEvalRules("Begin", Top(stack))
          /\ UNCHANGED result
  /\ UNCHANGED <<args, rules, selector, compiled, variables, out, errout, exit, trace, lastSet>>

\* a filter that lets every rule through
RuleSelected_AnyKind(rule, kind) == TRUE

\* rules.iter().filter(|rule| rule.kind == kind)
RuleSelected(rule, kind) == rule.kind = kind

\* an iterator that does not move on: the rule just visited is found again
NextRuleIndex_Again(rs, kind, after) ==
  IF \E i \in (IF after = 0 THEN 1 ELSE after)..Len(rs) : RuleSelected(rs[i], kind)
  THEN CHOOSE i \in (IF after = 0 THEN 1 ELSE after)..Len(rs) :
         /\ RuleSelected(rs[i], kind)
         /\ \A k \in (IF after = 0 THEN 1 ELSE after)..(i - 1) : ~RuleSelected(rs[k], kind)
  ELSE 0

\* the index of the next rule the loop of eval_rules visits, 0 at the end
NextRuleIndex(rs, kind, after) ==
  IF \E i \in (after + 1)..Len(rs) : RuleSelected(rs[i], kind)
  THEN CHOOSE i \in (after + 1)..Len(rs) :
         /\ RuleSelected(rs[i], kind)
         /\ \A k \in (after + 1)..(i - 1) : ~RuleSelected(rs[k], kind)
  ELSE 0

\* eval_rules: the loop takes the next rule of the kind and evaluates its
\* pattern, or its body when the pattern is empty
NextRule ==
  /\ pc = "rules"
  /\ NextRuleIndex(rules, it.phase, it.rule) # 0
  /\ LET i == NextRuleIndex(rules, it.phase, it.rule) IN
       /\ it' = [it EXCEPT !.rule = i]
       /\ trace' = Append(trace, [phase |-> it.phase, elem |-> it.elem, rule |-> i])
       /\ frame' = IF Len(rules[i].pattern) = 0
                   THEN CallEval("body", rules[i].body, stack)
                   ELSE CallEval("pattern", rules[i].pattern, stack)
       /\ pc' = "eval"
  /\ UNCHANGED <<args, rules, selector, compiled, fields, variables, stack, root, result,
                 out, errout, exit, lastSet>>

\* eval_rules: eval(pattern) returned Ok; pop the value, evaluate the body
\* when it is truthy
PatternDone ==
  /\ pc = "eval"
  /\ frame.part = "pattern"
  /\ frame.ip > Len(frame.code)
  /\ IF stack = <<>>
     THEN /\ ReturnErr("expected one value on the stack after pattern")
          /\ frame' = NoFrame
          /\ UNCHANGED stack
     ELSE /\ stack' = PopN(stack, 1)
          /\ IF Truthy(Top(stack))
             THEN /\ frame' = CallEval("body", rules[it.rule].body, stack')
                  /\ pc' = "eval"
             ELSE /\ frame' = NoFrame
                  /\ pc' = "rules"
          /\ UNCHANGED result
  /\ UNCHANGED <<args, rules, selector, compiled, fields, variables, root, it, out, errout,
                 exit, trace, lastSet>>

\* eval_rules: eval(body) returned Ok; on to the next rule
BodyDone ==
  /\ pc = "eval"
  /\ frame.part = "body"
  /\ frame.ip > Len(frame.code)
  /\ frame' = NoFrame
  /\ pc' = "rules"
  /\ UNCHANGED <<args, rules, selector, compiled, fields, variables, stack, root, it, result,
                 out, errout, exit, trace, lastSet>>

\* the items for_each_in visits, in order; <<>> stands in for a value that
\* is neither an array nor an object
Elements(v) ==
  IF v.t = "Array" THEN v.a.items
  ELSE IF v.t = "Object" THEN [i \in 1..Len(v.o.members) |-> v.o.members[i].v]
  ELSE <<>>

\* run: eval_rules for Begin returned Ok; for_each_in(v, ..) matches on v
BeginDone ==
  /\ pc = "rules"
  /\ it.phase = "Begin"
  /\ NextRuleIndex(rules, it.phase, it.rule) = 0
  /\ IF root.t \in {"Array", "Object"}
     THEN /\ pc' = "for_each"
          /\ UNCHANGED result
     ELSE ReturnErr("JSON must be an object or an array")
  /\ UNCHANGED <<args, rules, selector, compiled, errout, exit>>
  /\ UNCHANGED vmVars

\* a closure that leaves NR alone
IncrementNR_Skip(vs) == vs

\* the closure of run: NR + 1
IncrementNR(vs) == MapInsert(vs, "NR", NumAdd(AsF64(vs["NR"]), NumI(1)))

\* the root eval_rules gets for the Match rules of one item
MatchRoot(item) == ValueFrom(item)

\* for_each_in: the next item; the closure adds 1 to NR and calls eval_rules
\* for Match with the item
NextElement ==
  /\ pc = "for_each"
  /\ it.elem < Len(Elements(root))
  /\ variables' = IncrementNR(variables)
  /\ fields' = InsertRoot(fields, MatchRoot(Elements(root)[it.elem + 1]))
  /\ it' = [phase |-> "Match", elem |-> it.elem + 1, rule |-> 0]
  /\ pc' = "rules"
  /\ UNCHANGED <<args, rules, selector, compiled, stack, root, frame, result, out, errout,
                 exit, trace, lastSet>>

\* the closure of run returns Ok(()) after eval_rules for Match
MatchDone ==
  /\ pc = "rules"
  /\ it.phase = "Match"
  /\ NextRuleIndex(rules, it.phase, it.rule) = 0
  /\ pc' = "for_each"
  /\ UNCHANGED <<args, rules, selector, compiled, result, errout, exit>>
  /\ UNCHANGED vmVars

\* End rules that are handed the last item visited, as AWK's END block sees
\* the last record
EndRoot_LastItem(v) ==
  IF Elements(v) = <<>> THEN v ELSE ValueFrom(Elements(v)[Len(Elements(v))])

\* the root eval_rules gets for the End rules: v_clone
EndRoot(v) == v

\* run: for_each_in returned Ok; eval_rules for End with v_clone
ForEachDone ==
  /\ pc = "for_each"
  /\ it.elem = Len(Elements(root))
  /\ CallEvalRules("End", EndRoot(root))
  /\ UNCHANGED <<args, rules, selector, compiled, variables, stack, root, frame, result, out,
                 errout, exit, trace, lastSet>>

\* run: eval_rules for End returned Ok; return Ok(())
EndDone ==
  /\ pc = "rules"
  /\ it.phase = "End"
  /\ NextRuleIndex(rules, it.phase, it.rule) = 0
  /\ pc' = "returned"
  /\ result' = [done |-> TRUE, ok |-> TRUE, msg |-> ""]
  /\ UNCHANGED <<args, rules, selector, compiled, errout, exit>>
  /\ UNCHANGED vmVars

Next ==
  \/ CompileProgram
  \/ CompileSelector
  \/ RunStart
  \/ EvalStep
  \/ SelectorDone
  \/ NextRule
  \/ PatternDone
  \/ BodyDone
  \/ BeginDone
  \/ NextElement
  \/ MatchDone
  \/ ForEachDone
  \/ EndDone
  \/ MainReport

Spec == Init /\ [][Next]_vars


\* ------------------------------------------------------------------------
\* Properties
\* ------------------------------------------------------------------------

IsPrefix(p, q) == Len(p) <= Len(q) /\ SubSeq(q, 1, Len(p)) = p

\* the opcode the run is about to execute, when it is inside eval
AtOp == pc = "eval" /\ frame.ip <= Len(frame.code)
CurOp == frame.code[frame.ip]

\* the opcode eval executed last
PastOp == pc = "eval" /\ frame.ip > 1 /\ frame.ip <= Len(frame.code) + 1
PrevOp == frame.code[frame.ip - 1]

\* the evaluations of the rules of one kind for one element, in source order
RECURSIVE KindEntries(_, _, _, _)
KindEntries(rs, kind, elem, i) ==
  IF i > Len(rs) THEN <<>>
  ELSE (IF rs[i].kind = kind THEN <<[phase |-> kind, elem |-> elem, rule |-> i]>> ELSE <<>>)
       \o KindEntries(rs, kind, elem, i + 1)

RECURSIVE MatchEntries(_, _, _)
MatchEntries(rs, k, n) ==
  IF k > n THEN <<>> ELSE KindEntries(rs, "Match", k, 1) \o MatchEntries(rs, k + 1, n)

\* the order of evaluation the ordering guarantee prescribes for n elements
ExpectedTrace(rs, n) ==
  KindEntries(rs, "Begin", 0, 1) \o MatchEntries(rs, 1, n) \o KindEntries(rs, "End", n, 1)

\* C1: the rule evaluations of a run are, in order, all Begin rules in
\* source order, then for each element in iteration order the Match rules in
\* source order, then all End rules in source order, wherever BEGIN and END
\* stand in the program text: at every moment the evaluations started so far
\* are a prefix of that order, and a run that returns Ok has made all of them.
C1_RuleOrder ==
  /\ IsPrefix(trace, ExpectedTrace(rules, Len(Elements(root))))
  /\ (result.done /\ result.ok) => trace = ExpectedTrace(rules, Len(Elements(root)))

\* a run that returned Ok after two elements, with a Begin rule written after
\* an End rule and two rules of each kind
C1_Witness ==
  /\ result.done /\ result.ok
  /\ it.elem = 2
  /\ \E i, j \in 1..Len(trace) :
       /\ i < j
       /\ trace[i].phase = "Begin" /\ trace[j].phase = "End"
       /\ trace[i].rule > trace[j].rule
  /\ \A kind \in {"Begin", "Match", "End"} :
       Cardinality({i \in 1..Len(rules) : rules[i].kind = kind}) >= 2

\* some opcode of the program or of the selector assigns NR
AssignsNR ==
  \/ OpSetGlobal("NR") \in {selector[i] : i \in 1..Len(selector)}
  \/ \E r \in 1..Len(rules) :
       OpSetGlobal("NR") \in {rules[r].pattern[i] : i \in 1..Len(rules[r].pattern)}
                               \cup {rules[r].body[i] : i \in 1..Len(rules[r].body)}

\* NR is the number of Match iterations performed so far: 0 while Begin
\* rules run, k for the k-th element, the number of elements for End rules
NRCountsIterations ==
  /\ variables["NR"] = NumI(it.elem)
  /\ it.phase = "none" => it.elem = 0
  /\ it.phase = "Begin" => it.elem = 0
  /\ it.phase = "End" => it.elem = Len(Elements(root))

\* C2 as stated: at every point of every run NR equals the number of Match
\* iterations performed so far.
C2_Original == NRCountsIterations

\* C2: in every run of a program and selector that do not assign NR, NR
\* equals at every point the number of Match iterations performed so far:
\* 0 while Begin rules run, k while the Match rules run for the k-th element
\* and the number of elements while End rules run.
C2_NR == ~AssignsNR => NRCountsIterations

\* a Match rule reads NR for the second element, and an End rule reads it
C2_Witness ==
  /\ ~AssignsNR
  /\ PastOp /\ PrevOp = OpGetGlobal("NR")
  /\ \/ it.phase = "Match" /\ it.elem = 2 /\ Top(stack) = NumI(2)
     \/ it.phase = "End" /\ it.elem = 2 /\ Top(stack) = NumI(2)

\* C3: when eval returns from a rule's pattern the stack holds exactly one
\* value more than when it was called, and when it returns from a rule's body
\* the stack holds as many values as when it was called.
C3_StackDiscipline ==
  (pc = "eval" /\ frame.ip > Len(frame.code)) =>
     /\ frame.part = "pattern" => Len(stack) = frame.base + 1
     /\ frame.part = "body" => Len(stack) = frame.base

\* C4: in a Match rule executed for an element, pattern or body, `$`
\* (GetField with the empty name) pushes that element.
C4_DollarIsElement ==
  [][ (AtOp /\ it.phase = "Match" /\ CurOp = OpGetField(""))
        => /\ Len(stack') = Len(stack) + 1
           /\ Top(stack') = ValueFrom(Elements(root)[it.elem]) ]_vars

\* `$` was evaluated in the pattern and in the body of Match rules for the
\* second element
C4_Witness ==
  /\ PastOp /\ PrevOp = OpGetField("")
  /\ it.phase = "Match" /\ it.elem = 2
  /\ Top(stack) = ValueFrom(Elements(root)[2])
  /\ Elements(root)[2] # Elements(root)[1]

\* C5: during every Begin rule and every End rule fields["root"] is the
\* value the selector left, whatever the Match rules did in between.
C5_BeginEndRoot ==
  (it.phase \in {"Begin", "End"} /\ pc \in {"rules", "eval"}) => fields["root"] = root

\* an End rule evaluated `$` after Match rules ran, the selector output
\* being a part of the document
C5_Witness ==
  /\ it.phase = "End" /\ it.elem >= 1
  /\ PastOp /\ PrevOp = OpGetField("")
  /\ Top(stack) = root
  /\ root # ValueFrom(args.input)
  /\ \E i \in 1..Len(trace) : trace[i].phase = "Match"

\* the value GetGlobal pushes is the one the last SetGlobal of the name
\* stored, for the names in N
ReadsLastSet(N) ==
  (AtOp /\ CurOp.op = "GetGlobal" /\ CurOp.name \in N /\ CurOp.name \in DOMAIN lastSet)
     => Top(stack') = lastSet[CurOp.name]

AllNames == {"NR", "x", "y", "total"}

\* C6 as stated: GetGlobal of any name reads the value of the last SetGlobal
\* of that name.
C6_Original == [][ReadsLastSet(AllNames)]_vars

\* C6: a value stored by SetGlobal under a name other than NR is the value
\* GetGlobal of that name reads in every later rule execution until the next
\* SetGlobal of that name, across Begin rules, Match iterations and End
\* rules; NR is in addition incremented by the VM at every element.
C6_Globals == [][ReadsLastSet(AllNames \ {"NR"})]_vars

\* an End rule read a variable a Match rule had set
C6_Witness ==
  /\ it.phase = "End" /\ it.elem >= 1
  /\ PastOp /\ PrevOp.op = "GetGlobal" /\ PrevOp.name # "NR"
  /\ PrevOp.name \in DOMAIN lastSet
  /\ Top(stack) = lastSet[PrevOp.name]
  /\ Top(stack) # NumI(0)

\* C7: an opcode that raises a runtime error ends the run at once with that
\* error, and after run returned an error nothing of the VM changes: no
\* opcode, rule, element or End rule is executed and nothing is printed.
C7_AbortOnError ==
  [][ /\ (AtOp /\ ExecOp(CurOp, fields, variables, stack).res = "error")
           => /\ pc' = "returned"
              /\ result' = [done |-> TRUE, ok |-> FALSE,
                            msg |-> ExecOp(CurOp, fields, variables, stack).msg]
              /\ out' = out /\ trace' = trace /\ it' = it /\ frame' = frame
      /\ (result.done /\ ~result.ok)
           => UNCHANGED <<fields, variables, stack, out, trace, it, frame, result>> ]_vars

\* a run ended by an opcode in the middle of a body, with opcodes, rules,
\* elements and an End rule still to come
C7_Witness ==
  /\ pc = "exit" /\ result.done /\ ~result.ok
  /\ frame.part = "body" /\ frame.ip < Len(frame.code)
  /\ it.phase = "Match" /\ it.elem = 1 /\ Len(Elements(root)) = 2
  /\ it.rule < Len(rules)
  /\ errout = <<"runtime error: " \o result.msg>>

\* C8: the process exits with status 0 exactly when the program and the
\* selector compiled and the run returned Ok.
C8_ExitCode ==
  pc = "exit" =>
    (exit = 0 <=> /\ compiled.program.status = "ok"
                  /\ compiled.selector.status = "ok"
                  /\ result.done /\ result.ok)

\* the opcodes of the compiled program
RuleOps(rs) ==
  UNION {{rs[r].pattern[i] : i \in 1..Len(rs[r].pattern)}
           \cup {rs[r].body[i] : i \in 1..Len(rs[r].body)} : r \in 1..Len(rs)}

\* C9: a compilation in which `=` found another opcode than GetGlobal as
\* the last one emitted ends with a compile error record; one in which every
\* `=` found GetGlobal(name) has replaced it by a SetGlobal(name).
C9_AssignTarget ==
  LET c == compiled.program IN
  c.status # "none" =>
    /\ (\E i \in 1..Len(c.stashed) : c.stashed[i].op # "GetGlobal") => c.status = "error"
    /\ c.status = "ok" =>
         \A i \in 1..Len(c.stashed) :
            /\ c.stashed[i].op = "GetGlobal"
            /\ OpSetGlobal(c.stashed[i].name) \in RuleOps(rules)

\* the operators of one precedence level
SameLevel(op1, op2) ==
  \E L \in {{"+", "-"}, {"*", "/"}, {"=="}, {">"}, {"&&", "||"}} : op1 \in L /\ op2 \in L

\* the opcode an operator stands for
OpcodeOf(o) ==
  CASE o = "+" -> "Add" [] o = "-" -> "Subtract" [] o = "*" -> "Multiply" [] o = "/" -> "Divide"
    [] o = "==" -> "Equal" [] o = ">" -> "Greater" [] o = "&&" -> "And" [] o = "||" -> "Or"

Operand(t) == NumI(ParseDigits(t))

\* C10: for `a op1 b op2 c` with operators of one precedence level the
\* compiler emits a, b, OP1, c, OP2, and the program prints (a op1 b) op2 c.
C10_LeftAssoc ==
  (args.expr # <<>> /\ compiled.program.status = "ok") =>
    LET e == args.expr[1] IN
    SameLevel(e.op1, e.op2) =>
      /\ rules[1].body = << OpPushImmediate(Operand(e.a)), OpPushImmediate(Operand(e.b)),
                            Op(OpcodeOf(e.op1)), OpPushImmediate(Operand(e.c)),
                            Op(OpcodeOf(e.op2)), OpPrint(1) >>
      /\ (result.done /\ result.ok) =>
            out = << Display(BinaryResult(OpcodeOf(e.op2),
                                          BinaryResult(OpcodeOf(e.op1), Operand(e.a), Operand(e.b)),
                                          Operand(e.c))) >>

\* the precedence level of a binary operator, low to high: `=`; `&&`, `||`;
\* `==`, `~`, `!~`; `>`; `+`, `-`; `*`, `/`; `.`, `[]`
LevelOf(o) ==
  CASE o = "=" -> 1
    [] o \in {"&&", "||"} -> 2
    [] o \in {"==", "~", "!~"} -> 3
    [] o = ">" -> 4
    [] o \in {"+", "-"} -> 5
    [] o \in {"*", "/"} -> 6
    [] o \in {".", "[]"} -> 7

\* the body of `print a op1 b op2 c` when the operator of the higher level
\* is applied to its adjacent operands first
PrecedenceBody(e) ==
  IF LevelOf(e.op1) > LevelOf(e.op2)
  THEN << OpPushImmediate(Operand(e.a)), OpPushImmediate(Operand(e.b)), Op(OpcodeOf(e.op1)),
          OpPushImmediate(Operand(e.c)), Op(OpcodeOf(e.op2)), OpPrint(1) >>
  ELSE << OpPushImmediate(Operand(e.a)), OpPushImmediate(Operand(e.b)),
          OpPushImmediate(Operand(e.c)), Op(OpcodeOf(e.op2)), Op(OpcodeOf(e.op1)), OpPrint(1) >>

\* C11: for `a op1 b op2 c` with operators of different precedence levels
\* the program compiles and the opcode of the higher level is emitted so
\* that it is applied to its adjacent operands first, whichever operator
\* stands first; `1 == 1 && 2 > 1` applies Equal and Greater before And.
C11_Precedence ==
  /\ (args.expr # <<>> /\ pc # "main" /\ LevelOf(args.expr[1].op1) # LevelOf(args.expr[1].op2))
       => /\ compiled.program.status = "ok"
          /\ rules[1].body = PrecedenceBody(args.expr[1])
  /\ (args.program = "BEGIN { print 1 == 1 && 2 > 1 }" /\ pc # "main")
       => /\ compiled.program.status = "ok"
          /\ rules[1].body = << OpPushImmediate(NumI(1)), OpPushImmediate(NumI(1)), Op("Equal"),
                                OpPushImmediate(NumI(2)), OpPushImmediate(NumI(1)), Op("Greater"),
                                Op("And"), OpPrint(1) >>

\* ------------------------------------------------------------------------
\* The match operators below the lexer: Vm::run on the rules Compiler::binary
\* emits for `$ ~ /r/` and `$ !~ /r/`
\* ------------------------------------------------------------------------

\* the strings of the input arrays
MatchStrings == { "Asia", "Europe", "a.b", "" }

\* the regex literals; "(" is one Regex::new rejects
MatchRegexes == { "Asia", "^E", ".", "a\\.b", "(" }

\* the opcodes of `$ <op> /r/`: field, regex, then those of binary for the
\* token kind
MatchPattern(kind, r) == << OpGetField(""), OpPushImmediate(Regex(r)) >> \o BinaryOpcodes(kind)

\* the rule compile_rule builds for a pattern without a body
MatchRule(kind, r) == [kind |-> "Match", pattern |-> MatchPattern(kind, r), body |-> << OpPrint(0) >>]

MatchArgs ==
  { [program |-> "$ " \o (IF k = "Tilde" THEN "~" ELSE "!~") \o " /" \o r \o "/",
     selector |-> "$", program_file |-> FALSE, input |-> JArray(items), expr |-> <<>>,
     kind |-> k, regex |-> r] :
      k \in {"Tilde", "BangTilde"}, r \in MatchRegexes,
      items \in SeqsUpTo({JString(x) : x \in MatchStrings}, MaxElems) }

\* main after both compilers returned Ok, in front of vm.run
InitMatch ==
  /\ args \in MatchArgs
  /\ pc = "run"
  /\ rules = << MatchRule(args.kind, args.regex) >>
  /\ selector = << OpGetField("") >>
  /\ compiled = [program |-> [NotCompiled EXCEPT !.status = "ok"],
                 selector |-> [NotCompiled EXCEPT !.status = "ok"]]
  /\ fields = EmptyMap
  /\ variables = NewVariables
  /\ stack = <<>>
  /\ root = NumI(0)
  /\ it = [phase |-> "none", elem |-> 0, rule |-> 0]
  /\ frame = NoFrame
  /\ result = NoResult
  /\ out = <<>>
  /\ errout = <<>>
  /\ exit = -1
  /\ trace = <<>>
  /\ lastSet = EmptyMap

NextMatch ==
  \/ RunStart
  \/ EvalStep
  \/ SelectorDone
  \/ NextRule
  \/ PatternDone
  \/ BodyDone
  \/ BeginDone
  \/ NextElement
  \/ MatchDone
  \/ ForEachDone
  \/ EndDone
  \/ MainReport

SpecMatch == InitMatch /\ [][NextMatch]_vars

\* what `x ~ r` does: OpCode::Match on the operands x and Regex(r)
MatchOf(x, r) == ExecOp(Op("Match"), fields, variables, << x, Regex(r) >>)

\* the pattern of the running rule was evaluated to its end
PatternEvaluated == pc = "eval" /\ frame.part = "pattern" /\ frame.ip > Len(frame.code)

\* eval of the pattern returned an error
PatternFailed == pc = "returned" /\ result.done /\ ~result.ok /\ frame.part = "pattern"

SecondToken(src) == NextToken(NextToken(NewLexer(src))[1])[2]

\* C13: next_token returns Tilde for `~` and And for `&&`, never an Error
\* token: in `$ ~ /Asia/` the token after `$` is Tilde, and the programs
\* `$ ~ /Asia/` and `BEGIN { print 1 == 1 && 2 > 1 }` compile.
C13_OperatorTokens ==
  /\ (pc # "main" /\ args.program = "$ ~ /Asia/")
        => /\ SecondToken(args.program).kind = "Tilde"
           /\ compiled.program.status = "ok"
  /\ (pc # "main" /\ args.program = "BEGIN { print 1 == 1 && 2 > 1 }")
        => compiled.program.status = "ok"

\* truthiness as stated: Str iff non-empty, Num iff non-zero, Array, Object
\* and Regex never
StatedTruthy(v) ==
  \/ (v.t = "Str" /\ v.s # "")
  \/ (v.t = "Num" /\ ~(v.n = 0 /\ v.d # 0))

\* eval of a body is entered
EntersBody == frame.part # "body" /\ frame'.part = "body"

\* eval of a pattern returned Ok with a value on the stack
PatternValue == pc = "eval" /\ frame.part = "pattern" /\ frame.ip > Len(frame.code) /\ stack # <<>>

\* the lines a rule without a body prints for the elements vs whose pattern
\* value is pv(v): the elements with a truthy value, in order
RECURSIVE PrintedWhere(_, _, _)
PrintedWhere(vs, pv(_), i) ==
  IF i > Len(vs) THEN <<>>
  ELSE (IF StatedTruthy(pv(ValueFrom(vs[i]))) THEN <<Display(ValueFrom(vs[i]))>> ELSE <<>>)
         \o PrintedWhere(vs, pv, i + 1)

PatternSelf(v) == v

PatternGreater1(v) == BinaryResult("Greater", v, NumI(1))

\* C14: the body of a rule is evaluated exactly when its pattern is empty
\* or the value popped after the pattern is truthy (Str iff non-empty, Num
\* iff non-zero, nothing else); the rules `$` and `$ > 1`, written without
\* braces, have the body Print(0) and print exactly the elements whose
\* pattern value is truthy.
C14_BodyIffTruthy ==
  /\ [][ /\ EntersBody => \/ (pc = "rules" /\ Len(rules[it'.rule].pattern) = 0)
                          \/ (PatternValue /\ StatedTruthy(Top(stack)))
         /\ (pc = "rules" /\ pc' = "eval" /\ Len(rules[it'.rule].pattern) = 0)
               => (frame'.part = "body" /\ frame'.code = rules[it'.rule].body)
         /\ PatternValue
               => /\ stack' = PopN(stack, 1)
                  /\ EntersBody <=> StatedTruthy(Top(stack))
                  /\ EntersBody => frame'.code = rules[it.rule].body ]_vars
  /\ [](( args.program \in {"$", "$ > 1"} /\ pc = "returned" /\ result.ok )
          => /\ Len(rules) = 1 /\ rules[1].body = << OpPrint(0) >>
             /\ out = IF args.program = "$"
                      THEN PrintedWhere(Elements(root), PatternSelf, 1)
                      ELSE PrintedWhere(Elements(root), PatternGreater1, 1))

\* the rule `$` printed the non-empty string of an array and not the
\* empty one
C14_Witness ==
  /\ args.program = "$" /\ pc = "returned" /\ result.ok
  /\ root = ValueFrom(JArray(<<JString(""), JString("x")>>))
  /\ out = << "x" >>

\* the line Print(argc) writes for the values on top of the stack, first
\* printed first, a single space between two
PrintedLine(st, argc) ==
  CASE argc = 1 -> Display(st[Len(st)])
    [] argc = 2 -> Display(st[Len(st) - 1]) \o " " \o Display(st[Len(st)])
    [] OTHER -> JoinDisplay(SubSeq(st, Len(st) - argc + 1, Len(st)), 1)

\* C15: Print(0) prints fields["root"] and ends the running opcode
\* sequence: no later opcode of it is executed, so in `{ print; x = 1 }`
\* x is never assigned. Print(n) with n >= 1 pops n values, prints them in
\* source order joined by single spaces and goes on with the next opcode.
C15_Print ==
  /\ [][ (AtOp /\ CurOp.op = "Print")
           => IF CurOp.argc = 0
              THEN /\ out' = Append(out, Display(fields["root"]))
                   /\ pc' = "eval" /\ frame'.ip > Len(frame.code)
                   /\ stack' = stack /\ variables' = variables
              ELSE Len(stack) >= CurOp.argc
                     => /\ out' = Append(out, PrintedLine(stack, CurOp.argc))
                        /\ stack' = PopN(stack, CurOp.argc)
                        /\ pc' = "eval" /\ frame'.ip = frame.ip + 1 ]_vars
  /\ []((args.program = "{ print; x = 1 } END { print x }" /\ args.selector # "x = 1")
          => "x" \notin DOMAIN variables)

\* `{ print; x = 1 } END { print x }` ran over two elements: both were
\* printed and x still reads as unset
C15_Witness ==
  /\ args.program = "{ print; x = 1 } END { print x }"
  /\ pc = "returned" /\ result.ok
  /\ Len(Elements(root)) = 2
  /\ out = << Display(ValueFrom(Elements(root)[1])), Display(ValueFrom(Elements(root)[2])), "0" >>

\* floor(n) of a Num; a NaN or an infinity has none and lies out of every range
InRange(key, len) == key.d # 0 /\ 0 <= key.n \div key.d /\ key.n \div key.d < len

\* GetMember is about to index an array with a number
AtArrayIndex ==
  /\ AtOp /\ CurOp.op = "GetMember" /\ Len(stack) >= 2
  /\ stack[Len(stack) - 1].t = "Array" /\ Top(stack).t = "Num"

\* C16: GetMember on an Array with a Num key n pushes the element at
\* floor(n) when that is an index of the array and Num(0) otherwise, a
\* negative n included; it raises no error.
C16_ArrayIndex ==
  [][ AtArrayIndex
        => /\ pc' = "eval"
           /\ stack' = Append(PopN(stack, 2),
                IF InRange(Top(stack), Len(stack[Len(stack) - 1].a.items))
                THEN ValueFrom(stack[Len(stack) - 1].a.items[(Top(stack).n \div Top(stack).d) + 1])
                ELSE NumI(0)) ]_vars

\* equality as stated: two Str of the same text or two Num of equal numbers
\* (a NaN equals nothing)
StatedEqual(l, r) ==
  \/ (l.t = "Str" /\ r.t = "Str" /\ l.s = r.s)
  \/ (l.t = "Num" /\ r.t = "Num" /\ l.n = r.n /\ l.d = r.d /\ ~(l.n = 0 /\ l.d = 0))

\* C17: with two values on the stack Equal raises no error and replaces
\* them by one: Num(1) when both are Str of identical text or both Num of
\* equal numbers, Num(0) for every other pair, two identical arrays,
\* objects or regexes included.
C17_Equal ==
  [][ (AtOp /\ CurOp.op = "Equal" /\ Len(stack) >= 2)
        => /\ pc' = "eval"
           /\ frame'.ip = frame.ip + 1
           /\ stack' = Append(PopN(stack, 2),
                              IF StatedEqual(stack[Len(stack) - 1], Top(stack))
                              THEN NumI(1) ELSE NumI(0)) ]_vars

\* `$ == $` compared an array with itself and pushed Num(0)
C17_Witness ==
  /\ PastOp /\ PrevOp = Op("Equal")
  /\ args.program = "{ print $ == $, $ == \"x\", $ == 3 }"
  /\ frame.part = "body" /\ frame.ip = 4
  /\ fields["root"].t = "Array"
  /\ stack = << NumI(0) >>

\* C18: when the input is not valid JSON and both compilers returned Ok,
\* run returns a runtime error that the host reports as `runtime error: M`;
\* the process does not abort, and no opcode and no rule was executed.
C18_InvalidJson ==
  (pc = "exit" /\ args.input.j = "invalid"
     /\ compiled.program.status = "ok" /\ compiled.selector.status = "ok")
    => /\ result.done /\ ~result.ok
       /\ errout = << "runtime error: " \o result.msg >>
       /\ exit # PanicExit
       /\ trace = <<>> /\ out = <<>> /\ stack = <<>> /\ frame = NoFrame

\* C19: every rule of kind Begin or End has an empty pattern, and an
\* expression written directly after BEGIN is no part of the Begin rule:
\* `BEGIN $ > 1 { print }` gives a Begin rule without pattern, whose body is
\* the implicit Print(0), followed by the Match rule `$ > 1 { print }`.
C19_NoPattern ==
  /\ \A i \in 1..Len(rules) : rules[i].kind \in {"Begin", "End"} => rules[i].pattern = <<>>
  /\ (args.program = "BEGIN $ > 1 { print }" /\ pc # "main")
        => /\ compiled.program.status = "ok"
           /\ rules = << [kind |-> "Begin", pattern |-> <<>>, body |-> << OpPrint(0) >>],
                         [kind |-> "Match",
                          pattern |-> << OpGetField(""), OpPushImmediate(NumI(1)), Op("Greater") >>,
                          body |-> << OpPrint(0) >>] >>

\* `BEGIN $ > 1 { print }` ran to its end over two elements: the Begin rule
\* printed the whole input, the Match rule the one element above 1
C19_Witness ==
  /\ args.program = "BEGIN $ > 1 { print }"
  /\ pc = "returned" /\ result.ok
  /\ root = ValueFrom(JArray(<<JNull, JNumber(3)>>))
  /\ out = << Display(root), "3" >>
  /\ trace[1] = [phase |-> "Begin", elem |-> 0, rule |-> 1]

\* where a run is, as the steps of main and run follow each other: compile
\* the program, compile the selector, parse the input, the selector, the
\* Begin rules, the elements, the End rules, the return, the exit
Stage ==
  CASE pc = "main" -> 0
    [] pc = "main_selector" -> 1
    [] pc = "run" -> 2
    [] pc = "eval" /\ frame.part = "selector" -> 3
    [] pc = "for_each" -> 5
    [] pc = "returned" -> 7
    [] pc = "exit" -> 8
    [] OTHER -> IF it.phase = "Begin" THEN 4 ELSE IF it.phase = "Match" THEN 5 ELSE 6

\* the position of a run: stage, element, rule, part of the rule, opcode
Position ==
  << Stage,
     it.elem,
     IF pc = "for_each" THEN Len(rules) + 1 ELSE it.rule,
     IF pc # "eval" THEN 3 ELSE IF frame.part = "pattern" THEN 1 ELSE 2,
     IF pc = "eval" THEN frame.ip ELSE 0 >>

\* the lexicographic order of positions
LexLess(p, q) == \E k \in 1..Len(p) : p[k] < q[k] /\ \A j \in 1..(k - 1) : p[j] = q[j]

\* a step that calls eval
CallsEval == frame' # frame /\ frame'.part # "none" /\ frame'.ip = 1

\* the rule evaluation a step starts
StartsRule == trace' = Append(trace, [phase |-> it'.phase, elem |-> it'.elem, rule |-> it'.rule])

\* C20: a run terminates: every step moves its position (stage, element,
\* rule, part, opcode) forward and the positions are bounded by the rules
\* and the elements. One call of eval executes its opcodes in order, each
\* at most once, with no jump other than leaving. eval is called once for
\* the selector and for a rule and element once for a non-empty pattern
\* and at most once for the body, every rule being visited at most once
\* per phase and element.
C20_Terminates ==
  /\ [][ LexLess(Position, Position') ]_vars
  /\ []( /\ it.elem <= Len(Elements(root))
         /\ it.rule <= Len(rules)
         /\ frame.ip <= Len(frame.code) + 1
         /\ \A i, j \in 1..Len(trace) : trace[i] = trace[j] => i = j )
  /\ [][ AtOp => \/ frame' = [frame EXCEPT !.ip = frame.ip + 1]
                 \/ (frame' = [frame EXCEPT !.ip = Len(frame.code) + 1] /\ CurOp = OpPrint(0))
                 \/ (frame' = frame /\ pc' = "returned" /\ ~result'.ok) ]_vars
  /\ [][ CallsEval =>
           CASE frame'.part = "selector" -> pc = "run" /\ frame'.code = selector
             [] frame'.part = "pattern" ->
                  /\ pc = "rules" /\ StartsRule
                  /\ frame'.code = rules[it'.rule].pattern /\ frame'.code # <<>>
             [] frame'.part = "body" ->
                  /\ frame'.code = rules[it'.rule].body
                  /\ \/ (pc = "rules" /\ StartsRule /\ rules[it'.rule].pattern = <<>>)
                     \/ (pc = "eval" /\ frame.part = "pattern" /\ trace' = trace /\ it' = it) ]_vars

\* a run over two elements reached the exit after Begin, Match and End
\* rules, one of them with a pattern, were evaluated
C20_Witness ==
  /\ pc = "exit" /\ result.done /\ result.ok
  /\ Len(Elements(root)) = 2
  /\ \E i, j, k \in 1..Len(trace) :
        /\ trace[i].phase = "Begin" /\ trace[k].phase = "End"
        /\ trace[j].phase = "Match" /\ trace[j].elem = 2 /\ rules[trace[j].rule].pattern # <<>>

\* every Negate of an opcode sequence stands right after a Match
NegateFollowsMatch(code) ==
  \A k \in 1..Len(code) : code[k].op = "Negate" => (k > 1 /\ code[k - 1].op = "Match")

IsNullOrBool(v) == v.j \in {"null", "bool"}

\* GetMember is about to read the item of an array or the member of an
\* object that is a null, a true or a false
AtNullOrBoolMember ==
  /\ AtOp /\ CurOp.op = "GetMember" /\ Len(stack) >= 2
  /\ \/ /\ stack[Len(stack) - 1].t = "Array" /\ Top(stack).t = "Num"
        /\ InRange(Top(stack), Len(stack[Len(stack) - 1].a.items))
        /\ IsNullOrBool(stack[Len(stack) - 1].a.items[(Top(stack).n \div Top(stack).d) + 1])
     \/ /\ stack[Len(stack) - 1].t = "Object" /\ Top(stack).t = "Str"
        /\ MapGet(stack[Len(stack) - 1].o.members, Top(stack).s) # None
        /\ IsNullOrBool(Unwrap(MapGet(stack[Len(stack) - 1].o.members, Top(stack).s)))

\* C22: a JSON null, true or false becomes Num(0) wherever it becomes a
\* Value: as the document, as an iterated element, as the member of an
\* object and as the item of an array. Over the elements `[true, false]`
\* the rule `$` prints nothing (both are falsy) and `{ print $, $ == 0 }`
\* prints `0 1` twice (both print as 0 and compare Equal to 0).
C22_NullAndBool ==
  /\ [][ /\ (pc = "run" /\ IsNullOrBool(args.input)) => fields'["root"] = NumI(0)
         /\ (pc = "for_each" /\ it.elem < Len(Elements(root))
               /\ IsNullOrBool(Elements(root)[it.elem + 1])) => fields'["root"] = NumI(0)
         /\ AtNullOrBoolMember
               => (pc' = "eval" /\ stack' = Append(PopN(stack, 2), NumI(0))) ]_vars
  /\ []((args.input = JArray(<<JBool(TRUE), JBool(FALSE)>>) /\ args.selector = "$"
           /\ pc = "returned" /\ result.ok)
          => /\ args.program = "$" => out = <<>>
             /\ args.program = "{ print $, $ == 0 }" => out = << "0 1", "0 1" >>)

\* `{ print $, $ == 0 }` ran over `[true, false]` and printed `0 1` for both
C22_Witness ==
  /\ args.program = "{ print $, $ == 0 }" /\ args.selector = "$"
  /\ args.input = JArray(<<JBool(TRUE), JBool(FALSE)>>)
  /\ pc = "returned" /\ result.ok
  /\ out = << "0 1", "0 1" >>

====
